---- MODULE Spec2Model ----
(***************************************************************************)
(* A model of py-lstm: the Network orchestrator (network.py) and the       *)
(* layers it drives (layers.py).                                           *)
(*                                                                         *)
(* numpy arrays are objects with identity.  The model keeps them in a      *)
(* heap (a sequence of arrays); a Blob, Diff, Parameter or Gradient entry  *)
(* of a dictionary is a reference (an index into the heap), so an in-place *)
(* write `a[...] = v` is seen through every reference to `a`, and          *)
(* copy.deepcopy allocates new objects.  An array is its shape, its dtype  *)
(* (float64, int64 or bool) and its elements in row-major order.  An       *)
(* element is a multiple of 1/Unit and is held as that multiple, so that   *)
(* the cast of a fraction to int64 is modelled.                            *)
(***************************************************************************)
EXTENDS Integers, Sequences, FiniteSets, TLC

VARIABLES
    optimize,        \* the interpreter runs with -O: assert statements are stripped
    plan,            \* the caller's program: the addLayer calls it makes, in order
    layer,           \* the constructed layer objects, by identity
    _layers,         \* Network._layers
    _blobs,          \* Network._blobs: name -> reference
    _diffs,          \* Network._diffs: name -> reference
    _blob_history,   \* Network._blob_history: sequence of (name -> reference)
    heap,            \* the array objects
    stage,           \* the caller's position: "Unconfigured" until setup has returned
    lastCall,        \* what the most recent call did: its arguments, the layer calls
                     \* it made, the exception it raised, the value it returned
    pushed,          \* per outstanding pushState: the Blob values at that call
    staleRestore,    \* a popState after setup restored a snapshot pushed before it
    held             \* the arrays the caller keeps from get_mutable_gradient: references

vars == <<optimize, plan, layer, _layers, _blobs, _diffs, _blob_history, heap,
          stage, lastCall, pushed, staleRestore, held>>

(***************************************************************************)
(* Bounds.                                                                 *)
(***************************************************************************)
MaxHistory == 2

\* under -O an aggregating read adds parameters in place, without end: a read
\* is followed only while no parameter or gradient element exceeds MaxElement
MaxElement == 6

\* the resolution of the elements: every element is a multiple of 1/Unit.  A
\* product is exact when one factor is a whole number, as the callers' Blob
\* and Diff values are
Unit == 2

(***************************************************************************)
(* Exceptions.  NoErr: the call returned.                                  *)
(***************************************************************************)
NoErr == "none"

Ok(v) == [err |-> NoErr, val |-> v]

Raise(e) == [err |-> e, val |-> <<>>]

(***************************************************************************)
(* numpy arrays and the numpy operations the source uses.                  *)
(***************************************************************************)
Front(s) == SubSeq(s, 1, Len(s) - 1)

Last(s) == s[Len(s)]

Reverse(s) == [i \in 1..Len(s) |-> s[Len(s) + 1 - i]]

Min2(a, b) == IF a <= b THEN a ELSE b

RECURSIVE Prod(_)
Prod(s) == IF s = <<>> THEN 1 ELSE Head(s) * Prod(Tail(s))

RECURSIVE SumTo(_, _)
\* f[0] + ... + f[n-1], for an operator f given as a function on 0..n-1
SumTo(f, n) == IF n = 0 THEN 0 ELSE SumTo(f, n - 1) + f[n - 1]

MkArray(shape, data, dtype) == [shape |-> shape, data |-> data, dtype |-> dtype]

\* the whole numbers of a sequence, as elements
Whole(seq) == [i \in 1..Len(seq) |-> seq[i] * Unit]

\* the conversion of an element on assignment to an array of the given dtype:
\* int64 truncates toward zero, bool is (x != 0)
Cast(x, dtype) ==
    CASE dtype = "int64" -> IF x >= 0 THEN (x \div Unit) * Unit ELSE -(((-x) \div Unit) * Unit)
      [] dtype = "bool" -> IF x # 0 THEN Unit ELSE 0
      [] OTHER -> x

DTypeRank(dtype) == CASE dtype = "bool" -> 0 [] dtype = "int64" -> 1 [] OTHER -> 2

\* the dtype of the result of a binary operation
Promote(s, t) == IF DTypeRank(s) >= DTypeRank(t) THEN s ELSE t

\* the dtype of an array combined with a Python int (0*a, np.maximum(a, 0))
WithInt(dtype) == Promote(dtype, "int64")

NDim(a) == Len(a.shape)

Size(a) == Len(a.data)

\* np.zeros(shape, dtype=dtype), and 0*a for an array a of that shape and dtype
Zeros(shape, dtype) == MkArray(shape, [k \in 1..Prod(shape) |-> 0], dtype)

\* np.empty((0,))
Empty0 == MkArray(<<0>>, <<>>, "float64")

RECURSIVE Ravel(_, _)
\* the row-major offset (from 0) of index idx (components from 0)
Ravel(idx, shape) ==
    IF shape = <<>> THEN 0
    ELSE Ravel(Front(idx), Front(shape)) * Last(shape) + Last(idx)

RECURSIVE Unravel(_, _)
Unravel(k, shape) ==
    IF shape = <<>> THEN <<>>
    ELSE Append(Unravel(k \div Last(shape), Front(shape)), k % Last(shape))

At(a, idx) == a.data[Ravel(idx, a.shape) + 1]

\* the array of the given shape whose element at idx is F(idx)
FromFn(shape, dtype, F(_)) ==
    MkArray(shape, [k \in 1..Prod(shape) |-> F(Unravel(k - 1, shape))], dtype)

\* a.ravel(): the elements in row-major order
RavelData(a) == a.data

\* a.resize(shape, refcheck=False): in place, the elements kept in row-major
\* order, cut or padded with zeros
Resize(a, shape) ==
    MkArray(shape, [k \in 1..Prod(shape) |-> IF k <= Len(a.data) THEN a.data[k] ELSE 0],
            a.dtype)

\* numpy broadcasting of two shapes: the shorter is padded on the left with 1s
PadLeft(s, n) == [i \in 1..n |-> IF i <= n - Len(s) THEN 1 ELSE s[i - (n - Len(s))]]

MaxLen(s, t) == IF Len(s) >= Len(t) THEN Len(s) ELSE Len(t)

BroadcastOk(s, t) ==
    LET n == MaxLen(s, t)
        ps == PadLeft(s, n)
        pt == PadLeft(t, n)
    IN \A i \in 1..n : ps[i] = pt[i] \/ ps[i] = 1 \/ pt[i] = 1

BroadcastShape(s, t) ==
    LET n == MaxLen(s, t)
        ps == PadLeft(s, n)
        pt == PadLeft(t, n)
    IN [i \in 1..n |-> IF ps[i] = 1 THEN pt[i] ELSE ps[i]]

\* the index into an array of shape s that index idx of a broadcast result reads
BroadcastIdx(idx, s) ==
    [j \in 1..Len(s) |-> IF s[j] = 1 THEN 0 ELSE idx[Len(idx) - Len(s) + j]]

\* a binary elementwise operation a (op) b
Elementwise(a, b, Op(_, _)) ==
    IF ~BroadcastOk(a.shape, b.shape) THEN Raise("ValueError")
    ELSE Ok(FromFn(BroadcastShape(a.shape, b.shape), Promote(a.dtype, b.dtype),
                   LAMBDA idx : Cast(Op(At(a, BroadcastIdx(idx, a.shape)),
                                        At(b, BroadcastIdx(idx, b.shape))),
                                     Promote(a.dtype, b.dtype))))

Plus(x, y) == x + y

Times(x, y) == (x * y) \div Unit

\* np.maximum(a, 0)
Maximum0(a) ==
    MkArray(a.shape, [k \in 1..Len(a.data) |-> IF a.data[k] > 0 THEN a.data[k] ELSE 0],
            WithInt(a.dtype))

\* (a > 0): a bool array, True being 1
Positive(a) ==
    MkArray(a.shape, [k \in 1..Len(a.data) |-> IF a.data[k] > 0 THEN Unit ELSE 0], "bool")

RECURSIVE StripOnes(_, _)
\* a value assigned to an array of lower rank may have leading axes of length 1
StripOnes(s, n) ==
    IF Len(s) > n /\ Head(s) = 1 THEN StripOnes(Tail(s), n) ELSE s

\* dst[...] = src: dst after the assignment (dst keeps its shape and its dtype,
\* the elements of src are cast)
SetItem(dst, src) ==
    LET s == StripOnes(src.shape, NDim(dst))
    IN IF Len(s) > NDim(dst)
          \/ ~(\A j \in 1..Len(s) :
                 s[j] = 1 \/ s[j] = dst.shape[NDim(dst) - Len(s) + j])
       THEN Raise("ValueError")
       ELSE Ok(FromFn(dst.shape, dst.dtype,
                      LAMBDA idx : Cast(src.data[Ravel(BroadcastIdx(idx, s), s) + 1],
                                        dst.dtype)))

\* dst += src, in place: src must broadcast to the shape of dst, and the sum
\* must be castable to the dtype of dst by the same-kind rule
IAdd(dst, src) ==
    LET r == SetItem(MkArray(dst.shape, dst.data, "float64"), src)
    IN IF r.err # NoErr THEN r
       ELSE IF DTypeRank(src.dtype) > DTypeRank(dst.dtype) THEN Raise("TypeError")
       ELSE Ok(MkArray(dst.shape,
                       [k \in 1..Len(dst.data) |->
                          Cast(dst.data[k] + r.val.data[k], dst.dtype)],
                       dst.dtype))

\* np.transpose(a): the axes reversed
Transpose(a) == FromFn(Reverse(a.shape), a.dtype, LAMBDA idx : At(a, Reverse(idx)))

\* np.tensordot(a, b) with the default axes=2: the last two axes of a are
\* contracted with the first two of b
Tensordot2(a, b) ==
    IF NDim(a) < 2 \/ NDim(b) < 2 THEN Raise("IndexError")
    ELSE LET p == a.shape[NDim(a) - 1]
             q == a.shape[NDim(a)]
             ka == SubSeq(a.shape, 1, NDim(a) - 2)
             kb == SubSeq(b.shape, 3, NDim(b))
         IN IF p # b.shape[1] \/ q # b.shape[2] THEN Raise("ValueError")
            ELSE Ok(FromFn(ka \o kb, Promote(a.dtype, b.dtype),
                     LAMBDA idx :
                       LET ia == SubSeq(idx, 1, Len(ka))
                           ib == SubSeq(idx, Len(ka) + 1, Len(idx))
                       IN SumTo([c \in 0..(p * q - 1) |->
                                   Times(At(a, ia \o <<c \div q, c % q>>),
                                         At(b, <<c \div q, c % q>> \o ib))], p * q)))

\* np.dot(a, b): a scalar operand multiplies; otherwise the last axis of a is
\* contracted with the second-to-last axis of b (the only axis of a 1-d b)
Dot(a, b) ==
    IF NDim(a) = 0 \/ NDim(b) = 0 THEN Elementwise(a, b, Times)
    ELSE LET n == Last(a.shape)
             cb == IF NDim(b) = 1 THEN 1 ELSE NDim(b) - 1
             ka == Front(a.shape)
             kb == SubSeq(b.shape, 1, cb - 1) \o SubSeq(b.shape, cb + 1, NDim(b))
         IN IF n # b.shape[cb] THEN Raise("ValueError")
            ELSE Ok(FromFn(ka \o kb, Promote(a.dtype, b.dtype),
                     LAMBDA idx :
                       LET ia == SubSeq(idx, 1, Len(ka))
                           ib == SubSeq(idx, Len(ka) + 1, Len(idx))
                       IN SumTo([c \in 0..(n - 1) |->
                                   Times(At(a, Append(ia, c)),
                                         At(b, SubSeq(ib, 1, cb - 1) \o <<c>>
                                               \o SubSeq(ib, cb, Len(ib))))], n)))

\* np.sum(a, axis=0)
Sum0(a) ==
    IF NDim(a) = 0 THEN Raise("AxisError")
    ELSE Ok(FromFn(Tail(a.shape), WithInt(a.dtype),
             LAMBDA idx : SumTo([c \in 0..(Head(a.shape) - 1) |-> At(a, <<c>> \o idx)],
                                Head(a.shape))))

(***************************************************************************)
(* Dictionaries.  A Python dict is a function from its keys; iteration is  *)
(* in insertion order, sorted() is by code point.  The universe of         *)
(* parameter keys is that of InnerProduct.setup, which inserts 'w' first.  *)
(***************************************************************************)
EmptyDict == <<>>

InsertionOrder == <<"w", "b">>

SortedKeys == <<"b", "w">>

\* the layer names and blob names of the model, in sorted() order
SortedNames == <<"a", "b", "c", "s">>

BlobNames == <<"h", "x", "y", "z">>

RECURSIVE SelectIn(_, _)
\* the members of the set ks, in the order of the sequence order
SelectIn(order, ks) ==
    IF order = <<>> THEN <<>>
    ELSE IF Head(order) \in ks THEN <<Head(order)>> \o SelectIn(Tail(order), ks)
         ELSE SelectIn(Tail(order), ks)

\* for n in d
Keys(d) == SelectIn(InsertionOrder, DOMAIN d)

\* for n in sorted(d)
Sorted(d) == SelectIn(SortedKeys, DOMAIN d)

\* d[k] = v
DictSet(d, k, v) == [j \in (DOMAIN d) \cup {k} |-> IF j = k THEN v ELSE d[j]]

(***************************************************************************)
(* Layers (layers.py).  A layer operation takes the heap and the           *)
(* references it is passed, and returns the heap it leaves and the         *)
(* exception it raised, if any.                                            *)
(***************************************************************************)
\* BaseLayer.__init__, and InnerProduct.__init__ for output_shape: an int
\* becomes the 1-tuple
NewLayer(type, output_shape) ==
    [type |-> type, output_shape |-> output_shape,
     grad_ |-> EmptyDict, prms_ |-> EmptyDict]

\* the value of a keyword argument of a constructor: a number, or a tuple
Scalar(n) == [isTuple |-> FALSE, v |-> <<n>>]

Tuple(t) == [isTuple |-> TRUE, v |-> t]

\* InnerProduct.output_shape, the class attribute
DefaultOutputShape == 10

\* the data attributes a class defines: InnerProduct.output_shape, Sigmoid.sigma
ClassAttributes(type) ==
    CASE type = "InnerProduct" -> {"output_shape"}
      [] type = "Sigmoid" -> {"sigma"}
      [] OTHER -> {}

\* the methods of BaseLayer
Methods == {"forward", "backward", "setup", "get_mutable_gradient"}

\* hasattr(self, n) inside __init__: a class attribute, a method, the property
\* type, or an instance attribute already set.  self.grad_ and self.prms_ do
\* not exist yet, so the getter of a property that reads them raises
\* AttributeError and hasattr is False
HasAttr(type, attrs, n) ==
    \/ n \in DOMAIN attrs
    \/ n \in ClassAttributes(type)
    \/ n \in Methods
    \/ n = "type"

RECURSIVE InitLoop(_, _, _)
\* BaseLayer.__init__, lines 15-19; setattr of the property type, which has no
\* setter, raises AttributeError
InitLoop(type, attrs, lPrms) ==
    IF lPrms = <<>> THEN Ok(attrs)
    ELSE LET n == Head(lPrms)[1]
         IN IF ~HasAttr(type, attrs, n) THEN Raise("Exception")
            ELSE IF n = "type" THEN Raise("AttributeError")
            ELSE InitLoop(type, [k \in (DOMAIN attrs) \cup {n} |->
                                   IF k = n THEN Head(lPrms)[2] ELSE attrs[k]],
                          Tail(lPrms))

\* InnerProduct.__init__, lines 134-135: tuple(self.output_shape), or the
\* 1-tuple of it when it is not iterable
OutputShapeOf(attrs) ==
    IF "output_shape" \in DOMAIN attrs
    THEN IF attrs["output_shape"].isTuple THEN attrs["output_shape"].v
         ELSE <<attrs["output_shape"].v[1]>>
    ELSE <<DefaultOutputShape>>

\* type(**lPrms): the layer object and the instance attributes the loop set, or
\* the exception
Construct(type, lPrms) ==
    LET r == InitLoop(type, <<>>, lPrms)
    IN IF r.err # NoErr THEN r
       ELSE Ok([layer |-> [type |-> type,
                            output_shape |-> IF type = "InnerProduct"
                                             THEN OutputShapeOf(r.val) ELSE <<>>,
                            grad_ |-> EmptyDict, prms_ |-> EmptyDict],
                attrs |-> r.val])

Done(h) == [err |-> NoErr, heap |-> h]

Fail(e, h) == [err |-> e, heap |-> h]

ZipLen(bottom, top) == Min2(Len(bottom), Len(top))

RECURSIVE ReLUSetupFrom(_, _, _, _)
ReLUSetupFrom(h, bottom, top, i) ==
    IF i > ZipLen(bottom, top) THEN Done(h)
    ELSE ReLUSetupFrom([h EXCEPT ![top[i]] = Resize(h[top[i]], h[bottom[i]].shape)],
                       bottom, top, i + 1)

\* ReLU.setup
ReLUSetup(h, bottom, top) == ReLUSetupFrom(h, bottom, top, 1)

RECURSIVE ReLUForwardFrom(_, _, _, _)
ReLUForwardFrom(h, bottom, top, i) ==
    IF i > ZipLen(bottom, top) THEN Done(h)
    ELSE LET r == SetItem(h[top[i]], Maximum0(h[bottom[i]]))
         IN IF r.err # NoErr THEN Fail(r.err, h)
            ELSE ReLUForwardFrom([h EXCEPT ![top[i]] = r.val], bottom, top, i + 1)

\* ReLU.forward
ReLUForward(h, bottom, top) == ReLUForwardFrom(h, bottom, top, 1)

RECURSIVE ReLUBackwardFrom(_, _, _, _, _, _)
ReLUBackwardFrom(h, bottom, top, botgrad, topgrad, i) ==
    IF i > Min2(ZipLen(bottom, top), ZipLen(botgrad, topgrad)) THEN Done(h)
    ELSE LET m == Elementwise(h[topgrad[i]], Positive(h[top[i]]), Times)
             r == IF m.err # NoErr THEN m ELSE SetItem(h[botgrad[i]], m.val)
         IN IF r.err # NoErr THEN Fail(r.err, h)
            ELSE ReLUBackwardFrom([h EXCEPT ![botgrad[i]] = r.val],
                                  bottom, top, botgrad, topgrad, i + 1)

\* ReLU.backward
ReLUBackward(h, bottom, top, botgrad, topgrad) ==
    ReLUBackwardFrom(h, bottom, top, botgrad, topgrad, 1)

\* InnerProduct.setup: the top is resized in place; the parameters and the
\* gradients are new arrays
InnerProductSetup(L, h, bottom, top) ==
    IF ~optimize /\ ~(Len(bottom) = 1 /\ Len(top) = 1)
    THEN [err |-> "AssertionError", heap |-> h, obj |-> L]
    ELSE IF top = <<>> THEN [err |-> "IndexError", heap |-> h, obj |-> L]
    ELSE LET h1 == [h EXCEPT ![top[1]] = Resize(h[top[1]], L.output_shape)]
         IN IF bottom = <<>> THEN [err |-> "IndexError", heap |-> h1, obj |-> L]
            ELSE LET w == Zeros(h1[bottom[1]].shape \o L.output_shape, h1[bottom[1]].dtype)
                     b == Zeros(L.output_shape, h1[bottom[1]].dtype)
                     n == Len(h1)
                 IN [err |-> NoErr,
                     heap |-> h1 \o <<w, b, w, b>>,
                     obj |-> [L EXCEPT
                        !.prms_ = DictSet(DictSet(L.prms_, "w", n + 1), "b", n + 2),
                        !.grad_ = DictSet(DictSet(L.grad_, "w", n + 3), "b", n + 4)]]

\* InnerProduct.forward
InnerProductForward(L, h, bottom, top) ==
    IF bottom = <<>> THEN Fail("IndexError", h)
    ELSE IF "w" \notin DOMAIN L.prms_ THEN Fail("KeyError", h)
    ELSE LET t == Tensordot2(h[bottom[1]], h[L.prms_["w"]])
         IN IF t.err # NoErr THEN Fail(t.err, h)
            ELSE IF "b" \notin DOMAIN L.prms_ THEN Fail("KeyError", h)
            ELSE LET s == Elementwise(t.val, h[L.prms_["b"]], Plus)
                 IN IF s.err # NoErr THEN Fail(s.err, h)
                    ELSE IF top = <<>> THEN Fail("IndexError", h)
                    ELSE LET r == SetItem(h[top[1]], s.val)
                         IN IF r.err # NoErr THEN Fail(r.err, h)
                            ELSE Done([h EXCEPT ![top[1]] = r.val])

\* InnerProduct.backward, line 153: the gradient with respect to the input
InnerProductBackwardBottom(L, h, bottom, top, botgrad, topgrad) ==
    IF topgrad = <<>> THEN Fail("IndexError", h)
    ELSE IF "w" \notin DOMAIN L.grad_ THEN Fail("KeyError", h)
    ELSE LET d == Dot(h[topgrad[1]], Transpose(h[L.grad_["w"]]))
         IN IF d.err # NoErr THEN Fail(d.err, h)
            ELSE IF botgrad = <<>> THEN Fail("IndexError", h)
            ELSE LET r == SetItem(h[botgrad[1]], d.val)
                 IN IF r.err # NoErr THEN Fail(r.err, h)
                    ELSE Done([h EXCEPT ![botgrad[1]] = r.val])

\* InnerProduct.backward, line 155: the gradient with respect to w
InnerProductBackwardW(L, h, bottom, top, botgrad, topgrad) ==
    IF bottom = <<>> THEN Fail("IndexError", h)
    ELSE LET d == Dot(Transpose(h[topgrad[1]]), h[bottom[1]])
         IN IF d.err # NoErr THEN Fail(d.err, h)
            ELSE LET r == SetItem(h[L.grad_["w"]], Transpose(d.val))
                 IN IF r.err # NoErr THEN Fail(r.err, h)
                    ELSE Done([h EXCEPT ![L.grad_["w"]] = r.val])

\* InnerProduct.backward, line 156: the gradient with respect to b
InnerProductBackwardB(L, h, bottom, top, botgrad, topgrad) ==
    LET d == Sum0(h[topgrad[1]])
    IN IF d.err # NoErr THEN Fail(d.err, h)
       ELSE IF "b" \notin DOMAIN L.grad_ THEN Fail("KeyError", h)
       ELSE LET r == SetItem(h[L.grad_["b"]], d.val)
            IN IF r.err # NoErr THEN Fail(r.err, h)
               ELSE Done([h EXCEPT ![L.grad_["b"]] = r.val])

\* InnerProduct.backward
InnerProductBackward(L, h, bottom, top, botgrad, topgrad) ==
    LET r1 == InnerProductBackwardBottom(L, h, bottom, top, botgrad, topgrad)
    IN IF r1.err # NoErr THEN r1
       ELSE LET r2 == InnerProductBackwardW(L, r1.heap, bottom, top, botgrad, topgrad)
            IN IF r2.err # NoErr THEN r2
               ELSE InnerProductBackwardB(L, r2.heap, bottom, top, botgrad, topgrad)

\* l.setup(bottom, top), dispatched on the class of l
LayerSetup(L, h, bottom, top) ==
    CASE L.type = "ReLU" ->
           [err |-> NoErr, heap |-> ReLUSetup(h, bottom, top).heap, obj |-> L]
      [] L.type = "InnerProduct" -> InnerProductSetup(L, h, bottom, top)
      [] OTHER -> [err |-> NoErr, heap |-> h, obj |-> L]

\* l.forward(bottom, top)
LayerForward(L, h, bottom, top) ==
    CASE L.type = "ReLU" -> ReLUForward(h, bottom, top)
      [] L.type = "InnerProduct" -> InnerProductForward(L, h, bottom, top)
      [] OTHER -> Done(h)

\* l.backward(bottom, top, botgrad, topgrad)
LayerBackward(L, h, bottom, top, botgrad, topgrad) ==
    CASE L.type = "ReLU" -> ReLUBackward(h, bottom, top, botgrad, topgrad)
      [] L.type = "InnerProduct" ->
           InnerProductBackward(L, h, bottom, top, botgrad, topgrad)
      [] OTHER -> Done(h)

\* for n in sorted(self.prms_): the parameter arrays, in that order
RECURSIVE ConcatData(_, _, _)
ConcatData(h, d, keys) ==
    IF keys = <<>> THEN <<>>
    ELSE RavelData(h[d[Head(keys)]]) \o ConcatData(h, d, Tail(keys))

\* a variant of flat_parameters without sorted()
FlatOrderUnsorted(d) == Keys(d)

\* the order in which flat_parameters visits the parameters
FlatOrder(d) == Sorted(d)

\* BaseLayer.flat_parameters (getter): a new 1-d array
LayerFlatParameters(L, h) ==
    IF Cardinality(DOMAIN L.prms_) <= 0 THEN <<>>
    ELSE ConcatData(h, L.prms_, FlatOrder(L.prms_))

\* BaseLayer.flat_gradient: np.concatenate of the raveled gradients in sorted
\* order, which raises ValueError for an empty list
LayerFlatGradient(L, h) ==
    IF DOMAIN L.grad_ = {} THEN Raise("ValueError")
    ELSE Ok(ConcatData(h, L.grad_, Sorted(L.grad_)))

RECURSIVE SetFlatFrom(_, _, _, _, _)
SetFlatFrom(h, d, keys, value, k) ==
    IF keys = <<>> THEN h
    ELSE LET ref == d[Head(keys)]
             kk == k + Size(h[ref])
         IN SetFlatFrom([h EXCEPT ![ref] = MkArray(h[ref].shape,
                                                   [j \in 1..(kk - k) |->
                                                      Cast(value[k + j], h[ref].dtype)],
                                                   h[ref].dtype)],
                        d, Tail(keys), value, kk)

\* BaseLayer.flat_parameters (setter), for a value with an element for every
\* parameter element: each slice value[k:kk] then has the size of its array
LayerSetFlatParameters(L, h, value) == SetFlatFrom(h, L.prms_, FlatOrder(L.prms_), value, 0)

\* the number of parameter elements of a layer
TotalSize(L, h) == Len(LayerFlatParameters(L, h))

(***************************************************************************)
(* The Network (network.py).  An operation works on the record S of the    *)
(* Network's fields, the layer objects and the heap, and leaves in S.err   *)
(* the exception it raised and in S.calls the layer calls it made.         *)
(***************************************************************************)
Cur ==
    [blobs |-> _blobs, diffs |-> _diffs, hist |-> _blob_history, heap |-> heap,
     layer |-> layer, err |-> NoErr, calls |-> <<>>, ret |-> <<>>, held |-> held]

\* Network._get_blobs, Network._get_diffs
\* a variant of _get_blobs and _get_diffs that skips the names without an array
GetRefsLenient(d, names) ==
    LET present == SelectSeq(names, LAMBDA n : n \in DOMAIN d)
    IN Ok([i \in 1..Len(present) |-> d[present[i]]])

GetRefs(d, names) ==
    IF \A i \in 1..Len(names) : names[i] \in DOMAIN d
    THEN Ok([i \in 1..Len(names) |-> d[names[i]]])
    ELSE Raise("KeyError")

RECURSIVE OverwriteFrom(_, _, _, _)
\* for n in kwargs: d[n][...] = kwargs[n]
OverwriteFrom(h, d, kwargs, i) ==
    IF i > Len(kwargs) THEN Done(h)
    ELSE LET n == kwargs[i][1]
         IN IF n \notin DOMAIN d THEN Fail("KeyError", h)
            ELSE LET r == SetItem(h[d[n]], kwargs[i][2])
                 IN IF r.err # NoErr THEN Fail(r.err, h)
                    ELSE OverwriteFrom([h EXCEPT ![d[n]] = r.val], d, kwargs, i + 1)

\* a variant of forward1 and setup that walks the registry backwards
ForwardOrderReversed(n) == [k \in 1..n |-> n + 1 - k]

\* self._layers, as the indices of its entries
ForwardOrder(n) == [k \in 1..n |-> k]

\* a variant of backward1 without the [::-1]
BackwardOrderUnreversed(n) == [k \in 1..n |-> k]

\* self._layers[::-1]
BackwardOrder(n) == [k \in 1..n |-> n + 1 - k]

Call(k, op, args) == [entry |-> k, op |-> op, args |-> args]

\* the references forward1 passes to the layer of an entry
ForwardArgs(S, e) ==
    LET i == GetRefs(S.blobs, e.inputs)
        o == GetRefs(S.blobs, e.outputs)
    IN IF i.err # NoErr THEN i
       ELSE IF o.err # NoErr THEN o
       ELSE Ok(<<i.val, o.val>>)

\* a variant of backward1 that passes the Diffs where the Blobs belong, and the
\* Blobs where the Diffs belong
BackwardArgsIntoBlobs(S, e) ==
    LET b == ForwardArgs(S, e)
        di == GetRefs(S.diffs, e.inputs)
        do == GetRefs(S.diffs, e.outputs)
    IN IF b.err # NoErr THEN b
       ELSE IF di.err # NoErr THEN di
       ELSE IF do.err # NoErr THEN do
       ELSE Ok(<<di.val, do.val, b.val[1], b.val[2]>>)

\* the references backward1 passes to the layer of an entry
BackwardArgs(S, e) ==
    LET b == ForwardArgs(S, e)
        di == GetRefs(S.diffs, e.inputs)
        do == GetRefs(S.diffs, e.outputs)
    IN IF b.err # NoErr THEN b
       ELSE IF di.err # NoErr THEN di
       ELSE IF do.err # NoErr THEN do
       ELSE Ok(<<b.val[1], b.val[2], di.val, do.val>>)

RECURSIVE ForwardLoop(_, _)
\* for n,l,i,o in self._layers: l.forward(...)
ForwardLoop(S, order) ==
    IF order = <<>> THEN S
    ELSE LET e == _layers[Head(order)]
             a == ForwardArgs(S, e)
         IN IF a.err # NoErr THEN [S EXCEPT !.err = a.err]
            ELSE LET r == LayerForward(S.layer[e.layer], S.heap, a.val[1], a.val[2])
                     S1 == [S EXCEPT !.heap = r.heap,
                                     !.calls = Append(@, Call(Head(order), "forward", a.val))]
                 IN IF r.err # NoErr THEN [S1 EXCEPT !.err = r.err]
                    ELSE ForwardLoop(S1, Tail(order))

\* Network.forward1
Forward1(S, kwargs) ==
    LET w == OverwriteFrom(S.heap, S.blobs, kwargs, 1)
    IN IF w.err # NoErr THEN [S EXCEPT !.heap = w.heap, !.err = w.err]
       ELSE ForwardLoop([S EXCEPT !.heap = w.heap], ForwardOrder(Len(_layers)))

RECURSIVE BackwardLoop(_, _)
\* for n,l,i,o in self._layers[::-1]: l.backward(...)
BackwardLoop(S, order) ==
    IF order = <<>> THEN S
    ELSE LET e == _layers[Head(order)]
             a == BackwardArgs(S, e)
         IN IF a.err # NoErr THEN [S EXCEPT !.err = a.err]
            ELSE LET r == LayerBackward(S.layer[e.layer], S.heap,
                                        a.val[1], a.val[2], a.val[3], a.val[4])
                     S1 == [S EXCEPT !.heap = r.heap,
                                     !.calls = Append(@, Call(Head(order), "backward", a.val))]
                 IN IF r.err # NoErr THEN [S1 EXCEPT !.err = r.err]
                    ELSE BackwardLoop(S1, Tail(order))

\* Network.backward1
Backward1(S, kwargs) ==
    LET w == OverwriteFrom(S.heap, S.diffs, kwargs, 1)
    IN IF w.err # NoErr THEN [S EXCEPT !.heap = w.heap, !.err = w.err]
       ELSE BackwardLoop([S EXCEPT !.heap = w.heap], BackwardOrder(Len(_layers)))

RECURSIVE SeedFrom(_, _, _)
\* Network.setup, lines 29-30: self._blobs[n] = 0*kwargs[n]
SeedFrom(S, kwargs, i) ==
    IF i > Len(kwargs) THEN S
    ELSE SeedFrom([S EXCEPT !.heap = Append(@, Zeros(kwargs[i][2].shape, WithInt(kwargs[i][2].dtype))),
                            !.blobs = DictSet(@, kwargs[i][1], Len(S.heap) + 1)],
                  kwargs, i + 1)

RECURSIVE PlaceholdersFrom(_, _)
\* Network.setup, lines 33-35: a name not yet in self._blobs gets np.empty((0,))
PlaceholdersFrom(S, names) ==
    IF names = <<>> THEN S
    ELSE IF Head(names) \in DOMAIN S.blobs THEN PlaceholdersFrom(S, Tail(names))
    ELSE PlaceholdersFrom([S EXCEPT !.heap = Append(@, Empty0),
                                    !.blobs = DictSet(@, Head(names), Len(S.heap) + 1)],
                          Tail(names))

RECURSIVE SetupLoop(_, _)
\* Network.setup, lines 32-36
SetupLoop(S, order) ==
    IF order = <<>> THEN S
    ELSE LET e == _layers[Head(order)]
             S0 == PlaceholdersFrom(S, e.inputs \o e.outputs)
             a == ForwardArgs(S0, e)
             r == LayerSetup(S0.layer[e.layer], S0.heap, a.val[1], a.val[2])
             S1 == [S0 EXCEPT !.heap = r.heap,
                              !.layer = [@ EXCEPT ![e.layer] = r.obj],
                              !.calls = Append(@, Call(Head(order), "setup", a.val))]
         IN IF r.err # NoErr THEN [S1 EXCEPT !.err = r.err]
            ELSE SetupLoop(S1, Tail(order))

\* a variant of setup that creates no Diff
DiffsFromNone(S, names) == S

RECURSIVE DiffsFrom(_, _)
\* Network.setup, lines 37-38: self._diffs[n] = 0*self._blobs[n]
DiffsFrom(S, names) ==
    IF names = <<>> THEN S
    ELSE DiffsFrom([S EXCEPT !.heap = Append(@, Zeros(S.heap[S.blobs[Head(names)]].shape,
                                                        WithInt(S.heap[S.blobs[Head(names)]].dtype))),
                             !.diffs = DictSet(@, Head(names), Len(S.heap) + 1)],
                   Tail(names))

\* Network.setup
Setup(S, kwargs) ==
    LET S1 == SetupLoop(SeedFrom(S, kwargs, 1), ForwardOrder(Len(_layers)))
    IN IF S1.err # NoErr THEN S1
       ELSE DiffsFrom(S1, SelectIn(BlobNames, DOMAIN S1.blobs))

\* a variant of pushState that keeps the arrays: copy.copy(d)
ShallowCopy(h, d) == [heap |-> h, dict |-> d]

\* copy.deepcopy(d) of a dictionary of arrays: a new array per entry
DeepCopy(h, d) ==
    LET names == SelectIn(BlobNames, DOMAIN d)
        pos(n) == CHOOSE i \in 1..Len(names) : names[i] = n
    IN [heap |-> h \o [i \in 1..Len(names) |-> h[d[names[i]]]],
        dict |-> [n \in DOMAIN d |-> Len(h) + pos(n)]]

\* Network.pushState
PushState(S) ==
    LET c == DeepCopy(S.heap, S.blobs)
    IN [S EXCEPT !.heap = c.heap, !.hist = Append(@, c.dict)]

\* a variant of popState that returns when there is nothing to pop
PopStateSilent(S) ==
    IF S.hist = <<>> THEN S
    ELSE [S EXCEPT !.blobs = Last(S.hist), !.hist = Front(S.hist)]

\* a variant of popState that restores the snapshot as the Diffs too
PopStateAlsoDiffs(S) ==
    IF S.hist = <<>> THEN [S EXCEPT !.err = "IndexError"]
    ELSE [S EXCEPT !.blobs = Last(S.hist), !.diffs = Last(S.hist), !.hist = Front(S.hist)]

\* Network.popState: list.pop() of an empty list raises IndexError
PopState(S) ==
    IF S.hist = <<>> THEN [S EXCEPT !.err = "IndexError"]
    ELSE [S EXCEPT !.blobs = Last(S.hist), !.hist = Front(S.hist)]

\* l.parameters (BaseLayer.parameters) or l.gradient (BaseLayer.gradient): the
\* layer's own dictionary, not a copy
DictOf(L, field) == IF field = "prms_" THEN L.prms_ ELSE L.grad_

RECURSIVE AddInto(_, _, _, _)
\* for m in g: r[n][m] += g[m], r[n] being the dictionary target
AddInto(h, target, g, keys) ==
    IF keys = <<>> THEN Done(h)
    ELSE LET m == Head(keys)
         IN IF m \notin DOMAIN target THEN Fail("KeyError", h)
            ELSE LET r == IAdd(h[target[m]], h[g[m]])
                 IN IF r.err # NoErr THEN Fail(r.err, h)
                    ELSE AddInto([h EXCEPT ![target[m]] = r.val], target, g, Tail(keys))

\* assert set(g.keys()) == set(m.keys()): m is a local name that is bound only
\* by the loop after the assert, so evaluating the assert raises
\* UnboundLocalError; under -O the statement is not compiled
AssertKeys == IF optimize THEN NoErr ELSE "UnboundLocalError"

RECURSIVE AggregateLoop(_, _, _, _)
\* the loop of Network.parameters and Network.gradient; r maps a name to the
\* layer whose dictionary r[n] is
AggregateLoop(S, r, field, k) ==
    IF k > Len(_layers) THEN [S EXCEPT !.ret = r]
    ELSE LET e == _layers[k]
         IN IF e.name \notin DOMAIN r
            THEN AggregateLoop(S, DictSet(r, e.name, e.layer), field, k + 1)
            ELSE IF AssertKeys # NoErr THEN [S EXCEPT !.err = AssertKeys]
            ELSE LET g == DictOf(S.layer[e.layer], field)
                     a == AddInto(S.heap, DictOf(S.layer[r[e.name]], field), g, Keys(g))
                 IN IF a.err # NoErr THEN [S EXCEPT !.heap = a.heap, !.err = a.err]
                    ELSE AggregateLoop([S EXCEPT !.heap = a.heap], r, field, k + 1)

\* Network.parameters
Parameters(S) == AggregateLoop(S, EmptyDict, "prms_", 1)

\* Network.gradient
Gradient(S) == AggregateLoop(S, EmptyDict, "grad_", 1)

RECURSIVE ConcatNames(_, _)
ConcatNames(r, names) ==
    IF names = <<>> THEN <<>> ELSE r[Head(names)] \o ConcatNames(r, Tail(names))

\* assert set(g.keys()) ... for g an ndarray: g.keys raises AttributeError
AssertKeysFlat == IF optimize THEN NoErr ELSE "AttributeError"

RECURSIVE FlatParametersLoop(_, _, _)
\* Network.flat_parameters (getter); r maps a name to a 1-d array.  Under -O a
\* repeated name runs r[n][m] += g[m] with m an element of g, a float: an
\* IndexError, unless g is empty
FlatParametersLoop(S, r, k) ==
    IF k > Len(_layers)
    THEN IF DOMAIN r = {} THEN [S EXCEPT !.err = "ValueError"]
         ELSE [S EXCEPT !.ret = ConcatNames(r, SelectIn(SortedNames, DOMAIN r))]
    ELSE LET e == _layers[k]
             g == LayerFlatParameters(S.layer[e.layer], S.heap)
         IN IF e.name \notin DOMAIN r
            THEN FlatParametersLoop(S, DictSet(r, e.name, g), k + 1)
            ELSE IF AssertKeysFlat # NoErr THEN [S EXCEPT !.err = AssertKeysFlat]
            ELSE IF g # <<>> THEN [S EXCEPT !.err = "IndexError"]
            ELSE FlatParametersLoop(S, r, k + 1)

\* Network.flat_parameters (getter)
FlatParameters(S) == FlatParametersLoop(S, EmptyDict, 1)

RECURSIVE FlatGradientLoop(_, _, _)
FlatGradientLoop(S, r, k) ==
    IF k > Len(_layers)
    THEN IF DOMAIN r = {} THEN [S EXCEPT !.err = "ValueError"]
         ELSE [S EXCEPT !.ret = ConcatNames(r, SelectIn(SortedNames, DOMAIN r))]
    ELSE LET e == _layers[k]
             g == LayerFlatGradient(S.layer[e.layer], S.heap)
         IN IF g.err # NoErr THEN [S EXCEPT !.err = g.err]
            ELSE IF e.name \notin DOMAIN r
            THEN FlatGradientLoop(S, DictSet(r, e.name, g.val), k + 1)
            ELSE IF AssertKeysFlat # NoErr THEN [S EXCEPT !.err = AssertKeysFlat]
            ELSE IF g.val # <<>> THEN [S EXCEPT !.err = "IndexError"]
            ELSE FlatGradientLoop(S, r, k + 1)

\* Network.flat_gradient
FlatGradient(S) == FlatGradientLoop(S, EmptyDict, 1)

\* a variant of get_mutable_gradient that returns the stored array itself
GetMutableGradientReference(S, l, gradType) ==
    LET L == S.layer[l]
    IN IF gradType \notin DOMAIN L.grad_
       THEN [S EXCEPT !.err = IF optimize THEN "KeyError" ELSE "AssertionError"]
       ELSE [S EXCEPT !.held = Append(@, L.grad_[gradType])]

\* BaseLayer.get_mutable_gradient: the assert, then copy.deepcopy of the
\* stored array, which the caller holds from then on
GetMutableGradient(S, l, gradType) ==
    LET L == S.layer[l]
    IN IF gradType \notin DOMAIN L.grad_
       THEN [S EXCEPT !.err = IF optimize THEN "KeyError" ELSE "AssertionError"]
       ELSE [S EXCEPT !.heap = Append(@, S.heap[L.grad_[gradType]]),
                      !.held = Append(@, Len(S.heap) + 1)]

\* g[...] = value, for an array g that get_mutable_gradient returned
ModifyHeld(S, i, value) ==
    LET r == SetItem(S.heap[S.held[i]], value)
    IN IF r.err # NoErr THEN [S EXCEPT !.err = r.err]
       ELSE [S EXCEPT !.heap = [@ EXCEPT ![S.held[i]] = r.val]]

\* Network.flat_parameters (setter): pass
SetFlatParameters(S, value) == S

(***************************************************************************)
(* Object identity.  After a call the arrays no dictionary refers to are   *)
(* gone (reference counting); the references that remain are renumbered in *)
(* a fixed order, which changes no aliasing.                               *)
(***************************************************************************)
RECURSIVE Flatten(_)
Flatten(ss) == IF ss = <<>> THEN <<>> ELSE Head(ss) \o Flatten(Tail(ss))

RefsOf(d, order) == LET ks == SelectIn(order, DOMAIN d) IN [i \in 1..Len(ks) |-> d[ks[i]]]

Roots(S) ==
    RefsOf(S.blobs, BlobNames) \o RefsOf(S.diffs, BlobNames)
    \o Flatten([i \in 1..Len(S.hist) |-> RefsOf(S.hist[i], BlobNames)])
    \o Flatten([l \in 1..Len(S.layer) |->
                  RefsOf(S.layer[l].prms_, SortedKeys) \o RefsOf(S.layer[l].grad_, SortedKeys)])
    \o S.held

RECURSIVE Dedup(_, _)
Dedup(seq, seen) ==
    IF seq = <<>> THEN <<>>
    ELSE IF Head(seq) \in seen THEN Dedup(Tail(seq), seen)
    ELSE <<Head(seq)>> \o Dedup(Tail(seq), seen \cup {Head(seq)})

Compact(S) ==
    LET live == Dedup(Roots(S), {})
        new(i) == CHOOSE j \in 1..Len(live) : live[j] = i
        ren(d) == [n \in DOMAIN d |-> new(d[n])]
    IN [S EXCEPT
          !.heap = [j \in 1..Len(live) |-> S.heap[live[j]]],
          !.blobs = ren(S.blobs),
          !.diffs = ren(S.diffs),
          !.hist = [i \in 1..Len(S.hist) |-> ren(S.hist[i])],
          !.layer = [l \in 1..Len(S.layer) |->
                       [S.layer[l] EXCEPT !.prms_ = ren(S.layer[l].prms_),
                                          !.grad_ = ren(S.layer[l].grad_)]],
          !.held = [i \in 1..Len(S.held) |-> new(S.held[i])],
          !.calls = [c \in 1..Len(S.calls) |->
                       [S.calls[c] EXCEPT
                          !.args = [a \in 1..Len(S.calls[c].args) |->
                                      ren(S.calls[c].args[a])]]]]

\* the values behind a dictionary of references
Vals(h, d) == [n \in DOMAIN d |-> h[d[n]]]

BlobVals == Vals(heap, _blobs)

DiffVals == Vals(heap, _diffs)

HistoryVals == [i \in 1..Len(_blob_history) |-> Vals(heap, _blob_history[i])]

ParamVals == [l \in 1..Len(layer) |-> Vals(heap, layer[l].prms_)]

GradVals == [l \in 1..Len(layer) |-> Vals(heap, layer[l].grad_)]

(***************************************************************************)
(* The callers.  The layers are constructed first; a caller then makes the *)
(* addLayer calls of its plan, calls setup once, and from then on calls    *)
(* forward1, backward1, pushState, popState and the accessors in any       *)
(* order.  The code has no check that setup has run, so every call but     *)
(* addLayer and setup is possible in every stage.                          *)
(***************************************************************************)
\* the layer objects: ReLU(), InnerProduct(output_shape=1), InnerProduct(output_shape=1),
\* InnerProduct(output_shape=(3,))
Layers ==
    <<NewLayer("ReLU", <<>>), NewLayer("InnerProduct", <<1>>), NewLayer("InnerProduct", <<1>>),
      NewLayer("InnerProduct", <<3>>)>>

Entry(name, l, inputs, outputs) ==
    [name |-> name, layer |-> l, inputs |-> inputs, outputs |-> outputs]

\* an argument of addLayer: a bare name (kept in v[1]), or a list of names
Bare(name) == [isList |-> FALSE, v |-> <<name>>]

List(names) == [isList |-> TRUE, v |-> names]

\* the addLayer calls of a caller: a chain of three layers
ChainPlan ==
    <<Entry("a", 1, Bare("x"), Bare("h")), Entry("b", 1, List(<<"h">>), List(<<"y">>)),
      Entry("c", 1, List(<<"y">>), Bare("z"))>>

\* two layers with parameters under one name
SameNamePlan ==
    <<Entry("s", 2, List(<<"x">>), Bare("h")), Entry("s", 3, Bare("x"), Bare("y"))>>

\* a layer with parameters and a layer without under one name
MixedPlan ==
    <<Entry("s", 2, Bare("x"), Bare("h")), Entry("s", 1, Bare("h"), Bare("y"))>>

\* two layers with parameters, under names registered out of sorted order
OutOfOrderPlan ==
    <<Entry("b", 2, Bare("x"), Bare("h")), Entry("a", 3, Bare("h"), Bare("y"))>>

\* one layer with parameters, of output_shape (3,)
AffinePlan == <<Entry("a", 4, Bare("x"), Bare("y"))>>

\* a layer with parameters feeding a layer without, under names registered out
\* of sorted order
GradPlan == <<Entry("b", 2, Bare("x"), Bare("h")), Entry("a", 1, Bare("h"), Bare("y"))>>

\* a layer with parameters alone, on the input and output of GradPlan
HeldPlan == <<Entry("a", 2, Bare("x"), Bare("y"))>>

\* the keyword arguments of setup, forward1 and backward1, as (name, value) pairs
SetupInputs ==
    { <<>>, << <<"x", Zeros(<<1, 2>>, "float64")>> >>, << <<"x", Zeros(<<1, 2>>, "int64")>> >> }

ForwardInputs == { <<>>, << <<"x", MkArray(<<1, 2>>, Whole(<<-1, 2>>), "float64")>> >> }

BackwardInputs == { <<>>, << <<"z", MkArray(<<1, 2>>, Whole(<<2, -1>>), "float64")>> >> }

\* the caller of AffinePlan: an input of rank 2 or of rank 1; values of the
\* shape of the storage, of lower rank, a scalar, and of a shape that does not fit
AffineSetupInputs ==
    { << <<"x", Zeros(<<1, 2>>, "float64")>> >>, << <<"x", Zeros(<<2>>, "float64")>> >> }

AffineForwardInputs ==
    { <<>>,
      << <<"x", MkArray(<<1, 2>>, Whole(<<-1, 2>>), "float64")>> >>,
      << <<"x", MkArray(<<2>>, Whole(<<2, -1>>), "float64")>> >>,
      << <<"x", MkArray(<<>>, Whole(<<2>>), "int64")>> >>,
      << <<"x", MkArray(<<3>>, Whole(<<1, 2, 3>>), "float64")>> >> }

AffineBackwardInputs ==
    { <<>>,
      << <<"y", MkArray(<<3>>, Whole(<<1, 2, 3>>), "float64")>> >>,
      << <<"y", MkArray(<<>>, Whole(<<2>>), "int64")>> >>,
      << <<"y", MkArray(<<2>>, Whole(<<1, 2>>), "float64")>> >> }

\* the caller of GradPlan: a 1x1 input, on which every layer call succeeds
GradSetupInputs == { << <<"x", Zeros(<<1, 1>>, "float64")>> >> }

GradForwardInputs == { <<>>, << <<"x", MkArray(<<1, 1>>, Whole(<<2>>), "float64")>> >> }

GradBackwardInputs == { <<>>, << <<"y", MkArray(<<1>>, Whole(<<3>>), "float64")>> >> }

\* the classes and the keyword arguments of the constructor calls
LayerTypes == {"ReLU", "Sigmoid", "InnerProduct", "SoftMax"}

OptionNames ==
    {"output_shape", "sigma", "forward", "setup", "type", "gradient", "parameters",
     "flat_parameters", "prms_", "momentum"}

OptionValues(n) == IF n = "output_shape" THEN {Scalar(3), Tuple(<<1, 2>>)} ELSE {Scalar(0)}

MaxOptions == 2

OptionPairs == UNION { { <<n, v>> : v \in OptionValues(n) } : n \in OptionNames }

\* the keyword arguments of a constructor call: up to MaxOptions, of distinct names
RECURSIVE OptionMappings(_)
OptionMappings(k) ==
    IF k = 0 THEN {<<>>}
    ELSE OptionMappings(k - 1)
         \cup { Append(m, o) : m \in { mm \in OptionMappings(k - 1) : Len(mm) = k - 1 },
                               o \in OptionPairs }

DistinctNames(m) == \A i, j \in 1..Len(m) : m[i][1] = m[j][1] => i = j

\* the value a caller assigns to the parameter b of the affine layer
ParameterInputs == { MkArray(<<3>>, Whole(<<1, 2, 3>>), "int64") }

\* the arrays a caller keeps from get_mutable_gradient, the names it asks
\* for, and the value it writes into an array it keeps
MaxHeld == 1

GradTypes == {"w", "b", "q"}

HeldInputs == { MkArray(<<>>, Whole(<<1>>), "float64") }

\* the keyword arguments a caller passes, by its plan
SetupInputsOf(p) ==
    CASE p = AffinePlan -> AffineSetupInputs
      [] p \in {GradPlan, HeldPlan} -> GradSetupInputs
      [] OTHER -> SetupInputs

ForwardInputsOf(p) ==
    CASE p = AffinePlan -> AffineForwardInputs
      [] p \in {GradPlan, HeldPlan} -> GradForwardInputs
      [] OTHER -> ForwardInputs

BackwardInputsOf(p) ==
    CASE p = AffinePlan -> AffineBackwardInputs
      [] p \in {GradPlan, HeldPlan} -> GradBackwardInputs
      [] OTHER -> BackwardInputs

\* a vector of n distinct elements
Iota(n) == [i \in 1..n |-> i]

\* the vectors assigned to flat_parameters: of the length of the current one
FlatInputs(n) == { Whole(Iota(n)), [i \in 1..n |-> -1] }

\* Network.addLayer: a name that is not a list becomes a one-element list
AsList(x) == IF x.isList THEN x.v ELSE <<x.v[1]>>

AddLayer(registry, e) ==
    Append(registry, Entry(e.name, e.layer, AsList(e.inputs), AsList(e.outputs)))

Start(plans) ==
    /\ optimize \in BOOLEAN
    /\ plan \in plans
    /\ layer = Layers
    /\ _layers = <<>>
    /\ _blobs = EmptyDict
    /\ _diffs = EmptyDict
    /\ _blob_history = <<>>
    /\ heap = <<>>
    /\ stage = "Unconfigured"
    /\ lastCall = [op |-> "init", arg |-> <<>>, err |-> NoErr, calls |-> <<>>, ret |-> <<>>]
    /\ pushed = <<>>
    /\ staleRestore = FALSE
    /\ held = <<>>

\* the state a call leaves, and the record of the call
Commit(S, op, arg) ==
    LET C == Compact(S)
    IN /\ _blobs' = C.blobs
       /\ _diffs' = C.diffs
       /\ _blob_history' = C.hist
       /\ heap' = C.heap
       /\ layer' = C.layer
       /\ held' = C.held
       /\ lastCall' = [op |-> op, arg |-> arg, err |-> C.err, calls |-> C.calls,
                       ret |-> C.ret]

CallAddLayer ==
    /\ stage = "Unconfigured"
    /\ Len(_layers) < Len(plan)
    /\ _layers' = AddLayer(_layers, plan[Len(_layers) + 1])
    /\ lastCall' = [op |-> "addLayer", arg |-> plan[Len(_layers) + 1], err |-> NoErr,
                    calls |-> <<>>, ret |-> <<>>]
    /\ UNCHANGED <<optimize, plan, layer, _blobs, _diffs, _blob_history, heap, stage,
                   pushed, staleRestore, held>>

\* a constructor call: type(**lPrms).  The constructor reads nothing of the
\* state, so a behaviour holds one call
CallConstruct ==
    /\ lastCall.op = "init"
    /\ \E type \in LayerTypes :
         \E lPrms \in { m \in OptionMappings(MaxOptions) : DistinctNames(m) } :
            LET r == Construct(type, lPrms)
            IN lastCall' = [op |-> "construct", arg |-> <<type, lPrms>>, err |-> r.err,
                            calls |-> <<>>, ret |-> r.val]
    /\ UNCHANGED <<optimize, plan, layer, _layers, _blobs, _diffs, _blob_history, heap,
                   stage, pushed, staleRestore, held>>

CallSetup ==
    /\ stage = "Unconfigured"
    /\ Len(_layers) = Len(plan)
    /\ \E kwargs \in SetupInputsOf(plan) :
         LET S == Setup(Cur, kwargs)
         IN /\ Commit(S, "setup", kwargs)
            /\ stage' = IF S.err = NoErr THEN "Ready" ELSE "Failed"
    /\ UNCHANGED <<optimize, plan, _layers, pushed, staleRestore>>

CallForward1 ==
    /\ \E kwargs \in ForwardInputsOf(plan) : Commit(Forward1(Cur, kwargs), "forward1", kwargs)
    /\ UNCHANGED <<optimize, plan, _layers, stage, pushed, staleRestore>>

CallBackward1 ==
    /\ \E kwargs \in BackwardInputsOf(plan) : Commit(Backward1(Cur, kwargs), "backward1", kwargs)
    /\ UNCHANGED <<optimize, plan, _layers, stage, pushed, staleRestore>>

CallPushState ==
    /\ Len(_blob_history) < MaxHistory
    /\ Commit(PushState(Cur), "pushState", <<>>)
    /\ pushed' = Append(pushed, [vals |-> BlobVals, stage |-> stage])
    /\ UNCHANGED <<optimize, plan, _layers, stage, staleRestore>>

CallPopState ==
    /\ Commit(PopState(Cur), "popState", <<>>)
    /\ pushed' = IF pushed = <<>> THEN pushed ELSE Front(pushed)
    /\ staleRestore' = (staleRestore
                          \/ (pushed # <<>> /\ stage = "Ready" /\ Last(pushed).stage # "Ready"))
    /\ UNCHANGED <<optimize, plan, _layers, stage>>

\* no element of a parameter or of a gradient is beyond MaxElement
Bounded(S) ==
    \A l \in 1..Len(S.layer) : \A field \in {"prms_", "grad_"} :
       LET d == DictOf(S.layer[l], field)
       IN \A m \in DOMAIN d : \A k \in 1..Len(S.heap[d[m]].data) :
             S.heap[d[m]].data[k] \in (-MaxElement * Unit)..(MaxElement * Unit)

CallParameters ==
    /\ Bounded(Parameters(Cur))
    /\ Commit(Parameters(Cur), "parameters", <<>>)
    /\ UNCHANGED <<optimize, plan, _layers, stage, pushed, staleRestore>>

CallGradient ==
    /\ Bounded(Gradient(Cur))
    /\ Commit(Gradient(Cur), "gradient", <<>>)
    /\ UNCHANGED <<optimize, plan, _layers, stage, pushed, staleRestore>>

CallFlatParameters ==
    /\ Commit(FlatParameters(Cur), "flat_parameters", <<>>)
    /\ UNCHANGED <<optimize, plan, _layers, stage, pushed, staleRestore>>

CallSetFlatParameters ==
    /\ \E value \in FlatInputs(Len(FlatParameters(Cur).ret)) :
         Commit(SetFlatParameters(Cur, value), "flat_parameters=", value)
    /\ UNCHANGED <<optimize, plan, _layers, stage, pushed, staleRestore>>

\* the layers the caller has registered
Registered == { _layers[k].layer : k \in 1..Len(_layers) }

\* layer.flat_parameters, read by the caller
CallLayerFlatParameters ==
    /\ \E l \in Registered :
         Commit([Cur EXCEPT !.ret = LayerFlatParameters(layer[l], heap)],
                "layer.flat_parameters", <<l>>)
    /\ UNCHANGED <<optimize, plan, _layers, stage, pushed, staleRestore>>

\* layer.flat_parameters = value
CallLayerSetFlatParameters ==
    /\ \E l \in Registered :
         \E value \in FlatInputs(TotalSize(layer[l], heap)) :
            Commit([Cur EXCEPT !.heap = LayerSetFlatParameters(layer[l], heap, value)],
                   "layer.flat_parameters=", <<l, value>>)
    /\ UNCHANGED <<optimize, plan, _layers, stage, pushed, staleRestore>>

\* layer.parameters[name][...] = value
AssignParameter(L, h, name, value) ==
    IF name \notin DOMAIN L.prms_ THEN Fail("KeyError", h)
    ELSE LET r == SetItem(h[L.prms_[name]], value)
         IN IF r.err # NoErr THEN Fail(r.err, h)
            ELSE Done([h EXCEPT ![L.prms_[name]] = r.val])

CallAssignParameter ==
    /\ \E l \in Registered :
         \E value \in ParameterInputs :
            LET r == AssignParameter(layer[l], heap, "b", value)
            IN Commit([Cur EXCEPT !.heap = r.heap, !.err = r.err],
                      "layer.parameters[]=", <<l, "b", value>>)
    /\ UNCHANGED <<optimize, plan, _layers, stage, pushed, staleRestore>>

\* layer.flat_gradient, read by the caller
CallLayerFlatGradient ==
    /\ \E l \in Registered :
         LET r == LayerFlatGradient(layer[l], heap)
         IN Commit([Cur EXCEPT !.ret = r.val, !.err = r.err], "layer.flat_gradient", <<l>>)
    /\ UNCHANGED <<optimize, plan, _layers, stage, pushed, staleRestore>>

CallFlatGradient ==
    /\ Commit(FlatGradient(Cur), "flat_gradient", <<>>)
    /\ UNCHANGED <<optimize, plan, _layers, stage, pushed, staleRestore>>

\* g = layer.get_mutable_gradient(gradType)
CallGetMutableGradient ==
    /\ Len(held) < MaxHeld
    /\ \E l \in Registered :
         \E gradType \in GradTypes :
            Commit(GetMutableGradient(Cur, l, gradType), "get_mutable_gradient",
                   <<l, gradType>>)
    /\ UNCHANGED <<optimize, plan, _layers, stage, pushed, staleRestore>>

\* g[...] = value
CallModifyHeld ==
    /\ \E i \in 1..Len(held) :
         \E value \in HeldInputs :
            Commit(ModifyHeld(Cur, i, value), "g[...]=", <<i, value>>)
    /\ UNCHANGED <<optimize, plan, _layers, stage, pushed, staleRestore>>

\* l.setup(bottom, top) called again by the caller, for the layer of an entry
\* and the Blobs the entry names
SetupAgain(S, k) ==
    LET e == _layers[k]
        a == ForwardArgs(S, e)
    IN IF a.err # NoErr THEN [S EXCEPT !.err = a.err]
       ELSE LET r == LayerSetup(S.layer[e.layer], S.heap, a.val[1], a.val[2])
            IN [S EXCEPT !.heap = r.heap,
                         !.layer = [@ EXCEPT ![e.layer] = r.obj],
                         !.err = r.err]

CallLayerSetup ==
    /\ \E k \in 1..Len(_layers) : Commit(SetupAgain(Cur, k), "layer.setup", <<k>>)
    /\ UNCHANGED <<optimize, plan, _layers, stage, pushed, staleRestore>>

Init == Start({ChainPlan, OutOfOrderPlan})

InitAffine == Start({AffinePlan})

InitGrad == Start({GradPlan})

InitHeld == Start({HeldPlan})

InitAccess == Start({SameNamePlan, MixedPlan})

InitFlat == Start({OutOfOrderPlan, MixedPlan})

InitConstruct == Start({<<>>})

\* The Network's passes and snapshots.
Next ==
    \/ CallAddLayer
    \/ CallSetup
    \/ CallForward1
    \/ CallBackward1
    \/ CallPushState
    \/ CallPopState

Spec == Init /\ [][Next]_vars

\* The aggregating accessors, on layers whose parameters have been assigned.
NextAccess ==
    \/ CallAddLayer
    \/ CallSetup
    \/ CallLayerSetFlatParameters
    \/ CallParameters
    \/ CallGradient

SpecAccess == InitAccess /\ [][NextAccess]_vars

\* The flat parameter vectors of the layers and of the Network, and forward
\* passes on the parameters assigned.
NextFlat ==
    \/ CallAddLayer
    \/ CallSetup
    \/ CallForward1
    \/ CallLayerFlatParameters
    \/ CallLayerSetFlatParameters
    \/ CallFlatParameters
    \/ CallSetFlatParameters

SpecFlat == InitFlat /\ [][NextFlat]_vars

(***************************************************************************)
(* Properties.                                                             *)
(***************************************************************************)
RefsOfNames(d, names) == [i \in 1..Len(names) |-> d[names[i]]]

\* the names an entry's input or output list mentions, over the registry
NamesUsed ==
    UNION { { _layers[k].inputs[i] : i \in 1..Len(_layers[k].inputs) }
            \cup { _layers[k].outputs[i] : i \in 1..Len(_layers[k].outputs) }
            : k \in 1..Len(_layers) }

\* the value at name n equals the supplied value v, broadcast
Holds(h, d, n, v) == n \in DOMAIN d /\ SetItem(h[d[n]], v) = Ok(h[d[n]])

\* the forward call of entry k, with the Blobs its lists name
ForwardCallOf(k) ==
    Call(k, "forward", <<RefsOfNames(_blobs, _layers[k].inputs),
                         RefsOfNames(_blobs, _layers[k].outputs)>>)

\* the backward call of entry k, with the Blobs and Diffs its lists name
BackwardCallOf(k) ==
    Call(k, "backward", <<RefsOfNames(_blobs, _layers[k].inputs),
                          RefsOfNames(_blobs, _layers[k].outputs),
                          RefsOfNames(_diffs, _layers[k].inputs),
                          RefsOfNames(_diffs, _layers[k].outputs)>>)

\* C1: a forward1 call makes its layer calls in registration order, each once
\* and each with the Blobs the entry names: the j-th call it makes is the
\* forward of entry j, a call that returns has called every entry, and the
\* supplied values were written before the first layer ran (they are in the
\* named Blobs, and a ReLU entry reading such a Blob has output max(value, 0)).
\* A call in which a layer raises ends there.
C1_ForwardInRegistrationOrder ==
    lastCall.op = "forward1" =>
       /\ Len(lastCall.calls) <= Len(_layers)
       /\ \A j \in 1..Len(lastCall.calls) : lastCall.calls[j] = ForwardCallOf(j)
       /\ lastCall.err = NoErr =>
            /\ Len(lastCall.calls) = Len(_layers)
            /\ \A i \in 1..Len(lastCall.arg) :
                 LET n == lastCall.arg[i][1]
                     v == lastCall.arg[i][2]
                 IN /\ Holds(heap, _blobs, n, v)
                    /\ \A k \in 1..Len(_layers) :
                         (layer[_layers[k].layer].type = "ReLU" /\ _layers[k].inputs = <<n>>)
                            => Holds(heap, _blobs, _layers[k].outputs[1],
                                     Maximum0(heap[_blobs[n]]))

C1_Witness ==
    /\ stage = "Ready"
    /\ lastCall.op = "forward1"
    /\ lastCall.err = NoErr
    /\ lastCall.arg # <<>>
    /\ Len(lastCall.calls) = 3
    /\ \E k \in 1..Len(heap[_blobs["h"]].data) : heap[_blobs["h"]].data[k] > 0

\* C2: a backward1 call makes its layer calls in the reverse of registration
\* order, each once: the j-th call it makes is the backward of entry n+1-j, a
\* call that returns has called every entry, and the supplied values were
\* written to the named Diffs before the first layer ran (a ReLU entry whose
\* output is the named Diff has input Diff value * (output > 0)).
C2_BackwardInReverseOrder ==
    lastCall.op = "backward1" =>
       /\ Len(lastCall.calls) <= Len(_layers)
       /\ \A j \in 1..Len(lastCall.calls) :
            lastCall.calls[j] = BackwardCallOf(Len(_layers) + 1 - j)
       /\ lastCall.err = NoErr =>
            /\ Len(lastCall.calls) = Len(_layers)
            /\ \A i \in 1..Len(lastCall.arg) :
                 LET n == lastCall.arg[i][1]
                     v == lastCall.arg[i][2]
                 IN /\ Holds(heap, _diffs, n, v)
                    /\ \A k \in 1..Len(_layers) :
                         (layer[_layers[k].layer].type = "ReLU" /\ _layers[k].outputs = <<n>>)
                            => Holds(heap, _diffs, _layers[k].inputs[1],
                                     Elementwise(v, Positive(heap[_blobs[n]]), Times).val)

C2_Witness ==
    /\ stage = "Ready"
    /\ lastCall.op = "backward1"
    /\ lastCall.err = NoErr
    /\ lastCall.arg # <<>>
    /\ Len(lastCall.calls) = 3
    /\ lastCall.calls[1].entry = 3
    /\ \E k \in 1..Len(heap[_diffs["x"]].data) : heap[_diffs["x"]].data[k] # 0

\* every snapshot in the history holds the Blob values of the pushState that
\* made it
SnapshotsIntact ==
    /\ Len(_blob_history) = Len(pushed)
    /\ \A i \in 1..Len(pushed) : HistoryVals[i] = pushed[i].vals

\* C3: pushState/popState is a LIFO round trip of deep copies: in every state
\* each snapshot in the history still holds, name for name and element for
\* element, the Blob values of the pushState that made it (no forward1 or
\* other call changes it), and a popState that returns leaves the Blob mapping
\* equal to the values at the most recent pushState not yet popped and removes
\* that snapshot and no other.
C3_PushPopRoundTrip ==
    [][ /\ SnapshotsIntact'
        /\ (lastCall'.op = "popState" /\ lastCall'.err = NoErr) =>
              /\ pushed # <<>>
              /\ BlobVals' = Last(pushed).vals
              /\ HistoryVals' = Front(HistoryVals) ]_vars

C3_Witness ==
    /\ stage = "Ready"
    /\ lastCall.op = "popState"
    /\ lastCall.err = NoErr
    /\ Len(_blob_history) = 1
    /\ pushed[1].stage = "Ready"
    /\ BlobVals # HistoryVals[1]

\* every name the registry uses has a Blob and a Diff, of one shape
NamesHaveBlobAndDiff ==
    \A n \in NamesUsed :
       /\ n \in DOMAIN _blobs
       /\ n \in DOMAIN _diffs
       /\ heap[_blobs[n]].shape = heap[_diffs[n]].shape

\* C4, as stated: once setup has completed, every name the registry uses has a
\* Blob and a Diff of one shape, whatever forward1, backward1, pushState and
\* popState calls follow, pushState being callable before setup too.
C4_AlwaysBlobAndDiff == stage = "Ready" => NamesHaveBlobAndDiff

\* C4, amended: once setup has completed, every name the registry uses has a
\* Blob and a Diff of one shape, as long as no popState has restored a
\* snapshot that was pushed before setup.
C4_BlobAndDiffUnlessStaleRestore ==
    (stage = "Ready" /\ ~staleRestore) => NamesHaveBlobAndDiff

C4_Witness ==
    /\ stage = "Ready"
    /\ ~staleRestore
    /\ lastCall.op = "popState"
    /\ lastCall.err = NoErr
    /\ Len(pushed) = 1
    /\ pushed[1].stage = "Unconfigured"
    /\ NamesUsed # {}

\* C7: popState with an empty history raises, and leaves the Blob mapping, the
\* Diff mapping, the history and every array as they were.
C7_PopEmptyFails ==
    [][ (lastCall'.op = "popState" /\ _blob_history = <<>>) =>
           /\ lastCall'.err # NoErr
           /\ _blobs' = _blobs
           /\ _diffs' = _diffs
           /\ _blob_history' = _blob_history
           /\ heap' = heap ]_vars

C7_Witness ==
    /\ stage = "Ready"
    /\ staleRestore
    /\ lastCall.op = "popState"
    /\ lastCall.err # NoErr
    /\ _blob_history = <<>>

\* C8: pushState and popState leave every Diff, every layer's Parameters and
\* Gradients and the registry as they were, and pushState leaves the Blob
\* values as they were.
C8_PushPopFrame ==
    [][ lastCall'.op \in {"pushState", "popState"} =>
           /\ DiffVals' = DiffVals
           /\ ParamVals' = ParamVals
           /\ GradVals' = GradVals
           /\ _layers' = _layers
           /\ (lastCall'.op = "pushState" => BlobVals' = BlobVals) ]_vars

C8_Witness ==
    /\ stage = "Ready"
    /\ lastCall.op = "popState"
    /\ lastCall.err = NoErr
    /\ \E n \in DOMAIN _diffs : \E k \in 1..Len(heap[_diffs[n]].data) :
          heap[_diffs[n]].data[k] # 0
    /\ \E n \in DOMAIN _blobs : \E k \in 1..Len(heap[_blobs[n]].data) :
          heap[_blobs[n]].data[k] # 0

\* the accessor of the Network that aggregates the given layer dictionary
AccessorOf(field) == IF field = "prms_" THEN "parameters" ELSE "gradient"

\* the pairs of entries registered under one name
SameNamePairs ==
    { p \in (1..Len(_layers)) \X (1..Len(_layers)) :
        p[1] < p[2] /\ _layers[p[1]].name = _layers[p[2]].name }

\* C5, as stated: when two layers with the same keys are registered under one
\* name, a read of Network.parameters (of Network.gradient) returns, under that
\* name and for every key, the element-wise sum of the two layers' arrays as
\* they were when the read began.
C5_SameNameSum ==
    [][ \A field \in {"prms_", "grad_"} : \A p \in SameNamePairs :
          LET d1 == DictOf(layer[_layers[p[1]].layer], field)
              d2 == DictOf(layer[_layers[p[2]].layer], field)
              n == _layers[p[1]].name
          IN (lastCall'.op = AccessorOf(field) /\ DOMAIN d1 = DOMAIN d2 /\ DOMAIN d1 # {}) =>
                /\ lastCall'.err = NoErr
                /\ n \in DOMAIN lastCall'.ret
                /\ LET r == DictOf(layer'[lastCall'.ret[n]], field)
                   IN /\ DOMAIN r = DOMAIN d1
                      /\ \A m \in DOMAIN d1 :
                           Elementwise(heap[d1[m]], heap[d2[m]], Plus) = Ok(heap'[r[m]]) ]_vars

\* C6, as stated: when two layers registered under one name have different
\* keys, a read of Network.parameters (of Network.gradient) raises, and no
\* Parameter and no Gradient is changed.
C6_DifferentKeysRejected ==
    [][ \A field \in {"prms_", "grad_"} : \A p \in SameNamePairs :
          LET d1 == DictOf(layer[_layers[p[1]].layer], field)
              d2 == DictOf(layer[_layers[p[2]].layer], field)
          IN (lastCall'.op = AccessorOf(field) /\ DOMAIN d1 # DOMAIN d2) =>
                /\ lastCall'.err # NoErr
                /\ ParamVals' = ParamVals
                /\ GradVals' = GradVals ]_vars

\* the elements of an array of the given dtype
Representable(v, dtype) == \A i \in 1..Len(v) : Cast(v[i], dtype) = v[i]

\* after layer.flat_parameters = v: a read returns v, and each parameter holds
\* the slice of v that starts at the summed sizes of the parameters whose names
\* sort before its own ('b' before 'w')
FlatRoundTrip(L, v) ==
    LET size(n) == Len(heap[L.prms_[n]].data)
        start(n) == IF n = "w" /\ "b" \in DOMAIN L.prms_ THEN size("b") ELSE 0
    IN /\ LayerFlatParameters(L, heap) = v
       /\ \A n \in DOMAIN L.prms_ :
            heap[L.prms_[n]].data = SubSeq(v, start(n) + 1, start(n) + size(n))

\* C9, as stated: after layer.flat_parameters = v, for any v with an element
\* for every parameter element, a read of layer.flat_parameters returns v and
\* each parameter holds its sorted-name slice of v.
C9_LayerFlatRoundTrip ==
    lastCall.op = "layer.flat_parameters=" =>
       FlatRoundTrip(layer[lastCall.arg[1]], lastCall.arg[2])

\* C9, amended: after layer.flat_parameters = v, for any v with an element for
\* every parameter element and whose elements are values of the dtype of the
\* layer's parameters (the dtype of the layer's input Blob at setup), a read of
\* layer.flat_parameters returns v and each parameter holds its sorted-name
\* slice of v.
C9_LayerFlatRoundTripRepresentable ==
    (/\ lastCall.op = "layer.flat_parameters="
     /\ \A n \in DOMAIN layer[lastCall.arg[1]].prms_ :
          Representable(lastCall.arg[2], heap[layer[lastCall.arg[1]].prms_[n]].dtype))
       => FlatRoundTrip(layer[lastCall.arg[1]], lastCall.arg[2])

C9_Witness ==
    /\ stage = "Ready"
    /\ lastCall.op = "layer.flat_parameters="
    /\ Len(lastCall.arg[2]) = 3
    /\ \E i \in 1..3 : Cast(lastCall.arg[2][i], "int64") # lastCall.arg[2][i]
    /\ heap[layer[lastCall.arg[1]].prms_["w"]].dtype = "float64"
    /\ heap[layer[lastCall.arg[1]].prms_["w"]].data = SubSeq(lastCall.arg[2], 2, 3)

\* C10, as stated: after Network.flat_parameters = v, a read of
\* Network.flat_parameters returns v.
C10_NetworkFlatRoundTrip ==
    (lastCall.op = "flat_parameters=" /\ FlatParameters(Cur).err = NoErr)
       => FlatParameters(Cur).ret = lastCall.arg

\* The construction of layers.
NextConstruct == CallConstruct

SpecConstruct == InitConstruct /\ [][NextConstruct]_vars

\* the options a layer type recognises
Recognized(type) ==
    CASE type = "InnerProduct" -> {"output_shape"}
      [] type = "Sigmoid" -> {"sigma"}
      [] OTHER -> {}

\* C11, as stated: a constructor call returns a layer exactly when every
\* option name is a recognised option of the layer type; with any other name,
\* the name of a method or of a property included, it raises and yields no
\* layer.
C11_OnlyRecognizedOptions ==
    lastCall.op = "construct" =>
       LET type == lastCall.arg[1]
           lPrms == lastCall.arg[2]
       IN IF \A i \in 1..Len(lPrms) : lPrms[i][1] \in Recognized(type)
          THEN lastCall.err = NoErr
          ELSE lastCall.err # NoErr /\ lastCall.ret = <<>>

\* The affine layer in a network of one entry, with values of several shapes.
NextAffine ==
    \/ CallAddLayer
    \/ CallSetup
    \/ CallForward1
    \/ CallBackward1
    \/ CallAssignParameter

SpecAffine == InitAffine /\ [][NextAffine]_vars

\* C13, as stated: forward1 (backward1) with a value whose shape differs from
\* the shape of the Blob (Diff) it names, a scalar or an array of lower rank
\* included, fails before any layer is called.
C13_OtherShapeRejected ==
    (/\ lastCall.op \in {"forward1", "backward1"}
     /\ stage = "Ready"
     /\ lastCall.arg # <<>>) =>
       LET d == IF lastCall.op = "forward1" THEN _blobs ELSE _diffs
           n == lastCall.arg[1][1]
           v == lastCall.arg[1][2]
       IN (n \in DOMAIN d /\ v.shape # heap[d[n]].shape) =>
             lastCall.err # NoErr /\ lastCall.calls = <<>>

\* the parameter w of the affine layer of AffinePlan is all zeros
AffineWZero ==
    /\ "w" \in DOMAIN layer[4].prms_
    /\ \A k \in 1..Len(heap[layer[4].prms_["w"]].data) : heap[layer[4].prms_["w"]].data[k] = 0

\* C14, as stated: the affine layer with output_shape (3,) and w all zeros,
\* set up on an input of rank 1 or rank 2, writes b to its output on every
\* input of the shape of its input Blob: all zeros at first, [1,2,3] after b
\* is set to [1,2,3].
C14_AffineWritesBias ==
    (/\ lastCall.op = "forward1"
     /\ plan = AffinePlan
     /\ stage = "Ready"
     /\ AffineWZero
     /\ lastCall.arg # <<>> => lastCall.arg[1][2].shape = heap[_blobs["x"]].shape) =>
       /\ lastCall.err = NoErr
       /\ heap[_blobs["y"]].shape = <<3>>
       /\ heap[_blobs["y"]].data = heap[layer[4].prms_["b"]].data

\* the names of the values supplied to the last call are names of the registry
SuppliedNamesUsed == \A i \in 1..Len(lastCall.arg) : lastCall.arg[i][1] \in NamesUsed

NextGrad ==
    \/ CallAddLayer
    \/ CallSetup
    \/ CallForward1
    \/ CallBackward1
    \/ CallLayerSetFlatParameters
    \/ CallLayerSetup
    \/ CallLayerFlatParameters
    \/ CallLayerFlatGradient
    \/ CallFlatParameters
    \/ CallFlatGradient

SpecGrad == InitGrad /\ [][NextGrad]_vars

\* the names the registry uses as an input of an entry and never as an output
InputOnly ==
    { n \in NamesUsed :
        \A k \in 1..Len(_layers) : \A i \in 1..Len(_layers[k].outputs) :
           _layers[k].outputs[i] # n }

\* the names of the values supplied to a call
Supplied(kwargs) == { kwargs[i][1] : i \in 1..Len(kwargs) }

\* C15: backward1 leaves every Blob and every layer Parameter as it was;
\* forward1 leaves every Diff, every layer Parameter and every layer Gradient
\* as it was, and leaves the Blobs that are only inputs and are not supplied
\* as they were.
C15_PassFrame ==
    [][ /\ lastCall'.op = "backward1" =>
              /\ BlobVals' = BlobVals
              /\ ParamVals' = ParamVals
        /\ lastCall'.op = "forward1" =>
              /\ DiffVals' = DiffVals
              /\ ParamVals' = ParamVals
              /\ GradVals' = GradVals
              /\ \A n \in (InputOnly \cap DOMAIN _blobs) \ Supplied(lastCall'.arg) :
                    /\ n \in DOMAIN _blobs'
                    /\ heap'[_blobs'[n]] = heap[_blobs[n]] ]_vars

\* a backward pass through both layers with a non-zero upstream gradient, after
\* a forward pass on assigned parameters
C15_Witness ==
    /\ lastCall.op = "backward1"
    /\ lastCall.err = NoErr
    /\ Len(lastCall.calls) = 2
    /\ \E k \in 1..Len(heap[layer[2].grad_["w"]].data) : heap[layer[2].grad_["w"]].data[k] # 0
    /\ \E k \in 1..Len(heap[layer[2].prms_["w"]].data) : heap[layer[2].prms_["w"]].data[k] # 0
    /\ heap[_blobs["y"]].data # heap[_diffs["y"]].data

\* C19, as stated: two consecutive backward passes with the same Blobs, the
\* same upstream gradient and the same Parameters write the same Diffs and the
\* same Gradients.
C19_BackwardRepeatable ==
    [][ (/\ lastCall.op = "backward1"
         /\ lastCall.err = NoErr
         /\ lastCall'.op = "backward1"
         /\ lastCall'.err = NoErr
         /\ lastCall'.arg = lastCall.arg) =>
           /\ DiffVals' = DiffVals
           /\ GradVals' = GradVals ]_vars

\* C12, as stated: after a forward pass, setting a layer up again on the same
\* Blobs and running forward again on the same input leaves every Blob with
\* the shape and content the first pass gave it.
C12_SetupIdempotent ==
    [][ (/\ lastCall.op = "forward1"
         /\ lastCall.err = NoErr
         /\ stage = "Ready"
         /\ lastCall'.op = "layer.setup"
         /\ lastCall'.err = NoErr) =>
           LET S == Forward1(Cur', lastCall.arg)
           IN S.err = NoErr /\ Vals(S.heap, S.blobs) = BlobVals ]_vars

\* the entry names are distinct
DistinctEntryNames ==
    \A j, k \in 1..Len(_layers) : _layers[j].name = _layers[k].name => j = k

\* the layer of the entry of a name
LayerNamed(n) == layer[_layers[CHOOSE k \in 1..Len(_layers) : _layers[k].name = n].layer]

EntryNames == SelectIn(SortedNames, { _layers[k].name : k \in 1..Len(_layers) })

\* the parameters of the layers, layer by layer in sorted order of the names
RECURSIVE ParameterSegments(_)
ParameterSegments(names) ==
    IF names = <<>> THEN <<>>
    ELSE LayerFlatParameters(LayerNamed(Head(names)), heap) \o ParameterSegments(Tail(names))

\* the gradients of the layers, layer by layer in sorted order of the names; a
\* layer without gradients contributes nothing
RECURSIVE GradientSegments(_)
GradientSegments(names) ==
    IF names = <<>> THEN <<>>
    ELSE LET L == LayerNamed(Head(names))
         IN ConcatData(heap, L.grad_, Sorted(L.grad_)) \o GradientSegments(Tail(names))

\* C17, as stated: on a set-up network with distinct entry names,
\* flat_parameters is the concatenation of the layers' flat parameters in
\* sorted order of the names, and flat_gradient is the same concatenation of
\* the layers' flat gradients, a layer without parameters contributing an
\* empty segment.
C17_FlatInSortedNameOrder ==
    (stage = "Ready" /\ DistinctEntryNames) =>
       /\ lastCall.op = "flat_parameters" =>
             lastCall.err = NoErr /\ lastCall.ret = ParameterSegments(EntryNames)
       /\ lastCall.op = "flat_gradient" =>
             lastCall.err = NoErr /\ lastCall.ret = GradientSegments(EntryNames)

\* C20, as stated: the Gradients of every layer have the keys and the shapes
\* of its Parameters, and reading flat_gradient succeeds with a vector of the
\* length of flat_parameters, empty for a layer without parameters.
C20_GradientsMirrorParameters ==
    /\ \A l \in 1..Len(layer) :
          /\ DOMAIN layer[l].grad_ = DOMAIN layer[l].prms_
          /\ \A n \in DOMAIN layer[l].prms_ :
                heap[layer[l].grad_[n]].shape = heap[layer[l].prms_[n]].shape
    /\ lastCall.op = "layer.flat_gradient" =>
          /\ lastCall.err = NoErr
          /\ Len(lastCall.ret) = TotalSize(layer[lastCall.arg[1]], heap)

\* An affine layer, with a caller that keeps gradient arrays.
NextHeld ==
    \/ CallAddLayer
    \/ CallSetup
    \/ CallForward1
    \/ CallBackward1
    \/ CallGetMutableGradient
    \/ CallModifyHeld

SpecHeld == InitHeld /\ [][NextHeld]_vars

\* the arrays the caller keeps
HeldVals == [i \in 1..Len(held) |-> heap[held[i]]]

\* C18: get_mutable_gradient returns an array equal to the stored Gradient;
\* writing into a returned array leaves every stored Gradient as it was, and
\* backward1 leaves every returned array as it was; for a name the layer has
\* no Gradient of, the call raises, returns nothing and leaves every stored
\* Gradient as it was.
C18_MutableGradientIsCopy ==
    [][ /\ lastCall'.op = "g[...]=" => GradVals' = GradVals
        /\ lastCall'.op = "backward1" => HeldVals' = HeldVals
        /\ lastCall'.op = "get_mutable_gradient" =>
              LET L == layer[lastCall'.arg[1]]
                  gradType == lastCall'.arg[2]
              IN /\ GradVals' = GradVals
                 /\ IF gradType \in DOMAIN L.grad_
                    THEN /\ lastCall'.err = NoErr
                         /\ Len(held') = Len(held) + 1
                         /\ heap'[Last(held')] = heap[L.grad_[gradType]]
                    ELSE /\ lastCall'.err # NoErr
                         /\ HeldVals' = HeldVals ]_vars

\* a returned array that differs from the stored Gradient it was copied from,
\* after a write into it and a backward pass that rewrote the Gradient
C18_Witness ==
    /\ held # <<>>
    /\ lastCall.op = "backward1"
    /\ lastCall.err = NoErr
    /\ heap[held[1]].shape = <<1, 1, 1>>
    /\ heap[held[1]].data = Whole(<<1>>)
    /\ heap[layer[2].grad_["w"]].data # Whole(<<0>>)
    /\ heap[layer[2].grad_["w"]].data # heap[held[1]].data

====
